---- MODULE Spec2Model ----
(***************************************************************************)
(* Model of the tunnel route table of oes-birger (package tunnelroute):    *)
(* ConnectedRoutes, a map from agent name to the list of live routes,      *)
(* guarded by one sync.RWMutex, with the operations Add, Remove, Send and  *)
(* Cancel called concurrently by goroutines.                               *)
(* A call that does nothing that can block while it holds the lock is one  *)
(* step (lock, body, unlock); Remove and Send stop once inside the lock,   *)
(* before Route.Close and Route.Send.                                      *)
(*                                                                         *)
(* Further parts: the Kubernetes endpoint executor of the agent            *)
(* (executeHTTPRequest with the credential refresh worker), under the      *)
(* specification SpecKube, and the identity binding of the controller and  *)
(* of the CNC server, under SpecIdent.                                     *)
(***************************************************************************)
EXTENDS Bags, FiniteSets, Integers, Sequences, TLC

(***************************************************************************)
(* Bounds.                                                                 *)
(***************************************************************************)
\* longest route list the callers build under one name
MaxLen == 2
\* capacity of a route's send channel
ChanCap == 1

(***************************************************************************)
(* The goroutines calling into the table, and the values they pass.        *)
(***************************************************************************)
G == {"g1", "g2"}
NoG == "nog"

Routes == {"r1", "r2", "r3"}
NoRoute == "nil"

Names == {"a", "b"}
Ids == {"t1"}
Message == "open"

\* an endpoint descriptor as a route advertises it
Endpoint(t, n, c) == [Type |-> t, Name |-> n, Configured |-> c]

\* Route.GetName
GetName(r) ==
  CASE r = "r1" -> "a"
    [] r = "r2" -> "a"
    [] r = "r3" -> "b"

\* Route.GetSession: one session id per connection
GetSession(r) ==
  CASE r = "r1" -> "s1"
    [] r = "r2" -> "s2"
    [] r = "r3" -> "s3"

Sessions == {GetSession(r) : r \in Routes}

\* Route.GetEndpoints
GetEndpoints(r) ==
  CASE r = "r1" -> {Endpoint("kubernetes", "prod", TRUE),
                    Endpoint("aws", "acct", TRUE)}
    [] r = "r2" -> {Endpoint("kubernetes", "prod", FALSE),
                    Endpoint("aws", "acct", TRUE)}
    [] r = "r3" -> {Endpoint("kubernetes", "prod", FALSE)}

\* Route.HasEndpoint: a matching descriptor with configured = true
HasEndpoint(r, t, n) ==
  \E e \in GetEndpoints(r) : e.Type = t /\ e.Name = n /\ e.Configured

\* the searches the callers use
Search(n, t, e, s) == [Name |-> n, EndpointType |-> t, EndpointName |-> e, Session |-> s]
NoSearch == Search("", "", "", "")
EndpointKeys == {<<"kubernetes", "prod">>, <<"aws", "acct">>}
SendSearches == {Search(n, k[1], k[2], "") : n \in Names, k \in EndpointKeys}
CancelSearches == {Search("a", "kubernetes", "prod", "s1"), Search("a", "kubernetes", "prod", "s3"),
                   Search("b", "kubernetes", "prod", "s3"), Search("a", "kubernetes", "prod", "")}

\* Search.MatchesRoute: the route of the session the search names
MatchesRoute(ep, r) == ep.Session = GetSession(r)

(***************************************************************************)
(* State.                                                                  *)
(***************************************************************************)
VARIABLES
  m,        \* ConnectedRoutes.m: a function from the names that have an entry to route lists
  gauge,    \* connectedRoutesGauge, per name
  readers,  \* goroutines holding the read lock
  writer,   \* goroutine holding the write lock, or NoG
  closed,   \* routes on which Close() was called
  chan,     \* each route's send channel
  pc,       \* position of each goroutine: "idle", "Remove_Close", "Send_route"
  state,    \* argument of the Remove a goroutine is in
  ep,       \* argument of the Send a goroutine is in
  route,    \* route chosen by findService for the Send a goroutine is in
  last,     \* the call that returned in the last step, with its arguments and results
  life,     \* history, per route: "never" added, "added" once, "removed" after that,
            \* "multi" (added again); "off" when the history is not recorded
  hist      \* history: the table before the most recent Add ("added"), until the next
            \* Add or Remove; "removed" when that was the Remove of the same route

\* the Kubernetes endpoint and its executors
VARIABLES
  f,          \* KubernetesEndpoint.f: the stored kubeContext
  kreaders,   \* executors holding the endpoint's read lock
  kwriter,    \* TRUE while the refresh worker holds the endpoint's write lock
  saf,        \* the context the refresh worker has loaded, NoContext before the load
  xpc,        \* position of each executor goroutine
  c,          \* each executor's snapshot, field by field
  at,         \* history: the stored context when the executor took the read lock
  call,       \* what the executor built from its snapshot: TLS settings, URL, token header
  registry,   \* the registered cancel functions: pairs of an id and the executor
              \* whose context the function cancels
  cancelled,  \* executors whose cancel function was called
  left,       \* bytes of the response body not read yet
  out,        \* frames the executor is about to put on dataflow
  sent,       \* history: the frames each executor has put on dataflow, in order
  fatal,      \* "none" while the process runs, "refresh" once log.Fatalf in the
              \* refresh worker has ended it
  rid,        \* req.Id of the request each executor was started with
  draining    \* TRUE while the session's sender receives from dataflow

kvars == <<f, kreaders, kwriter, saf, xpc, c, at, call, registry, cancelled, left, out, sent,
           fatal, rid, draining>>

\* the identity checks and the CNC handlers
VARIABLES
  ident       \* the last identity check made or CNC request served, with its input
              \* and its result

\* the variables of the route table
tvars == <<m, gauge, readers, writer, closed, chan, pc, state, ep, route, last, life, hist>>

vars == <<m, gauge, readers, writer, closed, chan, pc, state, ep, route, last, life, hist,
          f, kreaders, kwriter, saf, xpc, c, at, call, registry, cancelled, left, out, sent,
          fatal, rid, draining, ident>>

\* the record of a call that returned
Call(o, st, s, t, r, sid, e) ==
  [op |-> o, state |-> st, ep |-> s, id |-> t, route |-> r, session |-> sid, err |-> e]
NoCall == Call("none", NoRoute, NoSearch, "", NoRoute, "", "nil")

ZeroGauge == [n \in Names |-> 0]
NoHist == [st |-> "none", r |-> NoRoute, m0 |-> << >>, g0 |-> ZeroGauge]
HistOff == [NoHist EXCEPT !.st = "off"]

\* the histories after Add(r) and after Remove(r)
LifeAdd(l, r) ==
  [l EXCEPT ![r] = CASE @ = "off" -> "off" [] @ = "never" -> "added" [] OTHER -> "multi"]
LifeRemove(l, r) ==
  [l EXCEPT ![r] = IF @ = "added" THEN "removed" ELSE @]
HistAdd(h, r, mm, gg) ==
  IF h.st = "off" THEN h ELSE [st |-> "added", r |-> r, m0 |-> mm, g0 |-> gg]
HistRemove(h, r) ==
  CASE h.st = "off" -> h
    [] h.st = "added" /\ h.r = r -> [h EXCEPT !.st = "removed"]
    [] OTHER -> NoHist

(***************************************************************************)
(* The map and the helpers of the table.                                   *)
(***************************************************************************)
Range(s) == {s[i] : i \in 1..Len(s)}

\* s.m[name] = list
MapSet(mm, name, list) ==
  [n \in DOMAIN mm \cup {name} |-> IF n = name THEN list ELSE mm[n]]

\* routes listed under a name (none when the name has no entry)
Listed(mm, name) == IF name \in DOMAIN mm THEN mm[name] ELSE << >>

\* MakeRoutes
MakeRoutes == << >>

\* sliceIndex: the first index (from 0) below limit satisfying the predicate
\* (a function on 0..limit-1), or -1
sliceIndex(limit, predicate) ==
  IF \E i \in 0..(limit - 1) : predicate[i]
  THEN CHOOSE i \in 0..(limit - 1) :
         predicate[i] /\ \A j \in 0..(i - 1) : ~predicate[j]
  ELSE -1

\* variant with a slip: the list found under the name is not used
AddMap_fresh(mm, r) == MapSet(mm, GetName(r), << r >>)

\* the map after the body of Add
AddMap(mm, r) ==
  LET routeList == IF GetName(r) \in DOMAIN mm THEN mm[GetName(r)] ELSE << >>
  IN  MapSet(mm, GetName(r), Append(routeList, r))

\* variant with a slip: the gauge is set to one instead of raised by one
AddGauge_one(gg, r) == [gg EXCEPT ![GetName(r)] = 1]

\* connectedRoutesGauge.WithLabelValues(name).Inc()
AddGauge(gg, r) == [gg EXCEPT ![GetName(r)] = @ + 1]

\* variant with a slip: the search starts at index 1
RemoveIndex_skipFirst(mm, r) ==
  IF GetName(r) \notin DOMAIN mm THEN -1
  ELSE LET routeList == mm[GetName(r)]
       IN  sliceIndex(Len(routeList),
                       [i \in 0..(Len(routeList) - 1) |-> i >= 1 /\ routeList[i + 1] = r])

\* index found by Remove, -1 when the name has no entry or the route is not listed
RemoveIndex(mm, r) ==
  IF GetName(r) \notin DOMAIN mm THEN -1
  ELSE LET routeList == mm[GetName(r)]
       IN  sliceIndex(Len(routeList),
                       [i \in 0..(Len(routeList) - 1) |-> routeList[i + 1] = r])

\* variant with a slip: truncates without the swap
SwapTruncate_noswap(routeList, i) == SubSeq(routeList, 1, Len(routeList) - 1)

\* swap with last, then truncate
SwapTruncate(routeList, i) ==
  LET n == Len(routeList)
      swapped == [routeList EXCEPT ![i + 1] = routeList[n]]
  IN  SubSeq(swapped, 1, n - 1)

\* the map after the body of Remove
RemoveMap(mm, r) ==
  LET i == RemoveIndex(mm, r)
  IN  IF i = -1 THEN mm
      ELSE MapSet(mm, GetName(r), SwapTruncate(mm[GetName(r)], i))

\* variants with a slip: the decrement forgotten; the decrement before the lookup
RemoveGauge_never(gg, mm, r) == gg
RemoveGauge_always(gg, mm, r) == [gg EXCEPT ![GetName(r)] = @ - 1]

\* connectedRoutesGauge.WithLabelValues(name).Dec(), reached only when the route was found
RemoveGauge(gg, mm, r) ==
  IF RemoveIndex(mm, r) = -1 THEN gg ELSE [gg EXCEPT ![GetName(r)] = @ - 1]

\* variant with a slip: the first route that has the endpoint is listed twice
possibleRoutes_firstTwice(routeList, s) ==
  LET p == SelectSeq([i \in 1..Len(routeList) |-> i],
                     LAMBDA i : HasEndpoint(routeList[i], s.EndpointType, s.EndpointName))
  IN  IF Len(p) = 0 THEN p ELSE <<p[1]>> \o p

\* variant with a slip: every route of the list is possible
possibleRoutes_all(routeList, s) == [i \in 1..Len(routeList) |-> i]

\* indexes (from 1) of the routes of the list that have the endpoint
possibleRoutes(routeList, s) ==
  SelectSeq([i \in 1..Len(routeList) |-> i],
            LAMBDA i : HasEndpoint(routeList[i], s.EndpointType, s.EndpointName))

\* variant with a slip: with no possible route, any route of the list is returned
findService_fallback(mm, s) ==
  IF s.Name \notin DOMAIN mm \/ Len(mm[s.Name]) = 0 THEN {}
  ELSE LET routeList == mm[s.Name]
           possible == possibleRoutes(routeList, s)
       IN  IF Len(possible) = 0 THEN Range(routeList)
           ELSE {routeList[possible[k]] : k \in 1..Len(possible)}

\* findService: the routes the random pick can return; empty means an error
findService(mm, s) ==
  IF s.Name \notin DOMAIN mm \/ Len(mm[s.Name]) = 0 THEN {}
  ELSE LET routeList == mm[s.Name]
           possible == possibleRoutes(routeList, s)
       IN  {routeList[possible[k]] : k \in 1..Len(possible)}

\* variant with a slip: the session of the search is returned
SendResult_search(r, s) == s.Session

\* what ConnectedRoutes.Send returns for the chosen route
SendResult(r, s) == GetSession(r)

\* Cancel's first test: the session of the search is not set
NoSession_never(s) == FALSE
NoSession(s) == Len(s.Session) = 0

\* the route Cancel delivers to: the first of the list matching the search, if any
CancelTarget_first(mm, s) ==
  IF s.Name \notin DOMAIN mm \/ Len(mm[s.Name]) = 0 THEN NoRoute
  ELSE mm[s.Name][1]
CancelTarget(mm, s) ==
  IF s.Name \notin DOMAIN mm \/ Len(mm[s.Name]) = 0 THEN NoRoute
  ELSE LET routeList == mm[s.Name]
           i == sliceIndex(Len(routeList),
                           [j \in 0..(Len(routeList) - 1) |-> MatchesRoute(s, routeList[j + 1])])
       IN  IF i = -1 THEN NoRoute ELSE routeList[i + 1]

Min(a, b) == IF a < b THEN a ELSE b

\* Route.GetStatistics: an opaque object for one route
RouteStatistics(r) == [route |-> r, name |-> GetName(r), session |-> GetSession(r)]

\* the orders in which a range over the keys of the map can visit them
KeyOrders(mm) ==
  {o \in [1..Cardinality(DOMAIN mm) -> DOMAIN mm] :
     \A i, j \in DOMAIN o : o[i] = o[j] => i = j}

\* ConnectedRoutes.GetStatistics: the statistics of every route of every list,
\* the lists visited in the order o; the set of results over all orders
RECURSIVE AppendStatistics_first(_, _, _)
AppendStatistics_first(mm, o, i) ==
  IF i > Len(o) THEN << >>
  ELSE [j \in 1..Min(1, Len(mm[o[i]])) |-> RouteStatistics(mm[o[i]][j])]
         \o AppendStatistics_first(mm, o, i + 1)
\* variant with a slip: a name with an empty list is reported by a row of its own
RECURSIVE AppendStatistics_emptyRow(_, _, _)
AppendStatistics_emptyRow(mm, o, i) ==
  IF i > Len(o) THEN << >>
  ELSE (IF Len(mm[o[i]]) = 0
          THEN <<[route |-> NoRoute, name |-> o[i], session |-> ""]>>
          ELSE [j \in 1..Len(mm[o[i]]) |-> RouteStatistics(mm[o[i]][j])])
         \o AppendStatistics_emptyRow(mm, o, i + 1)
RECURSIVE AppendStatistics(_, _, _)
AppendStatistics(mm, o, i) ==
  IF i > Len(o) THEN << >>
  ELSE [j \in 1..Len(mm[o[i]]) |-> RouteStatistics(mm[o[i]][j])]
         \o AppendStatistics(mm, o, i + 1)
GetStatistics(mm) == {AppendStatistics(mm, o, 1) : o \in KeyOrders(mm)}

(***************************************************************************)
(* sync.RWMutex.                                                           *)
(***************************************************************************)
\* Lock returns once no reader and no writer holds the lock
CanLock == writer = NoG /\ readers = {}

\* RLock returns once no writer holds the lock
CanRLock == writer = NoG

HoldsLock(g) == writer = g \/ g \in readers

(***************************************************************************)
(* Route, as far as the table uses it.                                     *)
(***************************************************************************)
\* Route.Close
Close(cl, r) == [cl EXCEPT ![r] = TRUE]

\* Route.Send: a send on the route's channel, which blocks while the channel is full
RouteSendReady(ch, r) == Len(ch[r]) < ChanCap
RouteSend(ch, r, msg) == [ch EXCEPT ![r] = Append(@, msg)]

(***************************************************************************)
(* The Kubernetes endpoint (package main of the agent, and package         *)
(* serviceconfig): values and functions.                                   *)
(***************************************************************************)
\* longest body of an outbound response, in bytes
MaxBody == 1
\* size of the buffer a body read fills
BufLen == 10240


\* the executor goroutines, one per request, and the id of the request of each
X == {"x1", "x2"}
FreshIds == [x \in X |-> IF x = "x1" THEN "t1" ELSE "t2"]
ReqId(x) == rid[x]

\* registerCancelFunction: a second function for an id is refused
registerCancelFunction(reg, id, x) ==
  IF \E p \in reg : p[1] = id THEN reg ELSE reg \cup {<<id, x>>}

\* unregisterCancelFunction: the function registered for the id is removed
unregisterCancelFunction(reg, id) == {p \in reg : p[1] # id}

\* ids that have a cancel function registered
Registered(reg) == {p[1] : p \in reg}

\* kubeContext; a nil certificate is "nil"
KubeContext(u, url, ca, cert, tok, ins) ==
  [username |-> u, serverURL |-> url, serverCA |-> ca, clientCert |-> cert,
   token |-> tok, insecure |-> ins]
\* the fields in the order makeServerContextFields copies them
Fields == <<"username", "serverURL", "serverCA", "clientCert", "token", "insecure">>
\* the zero value
NoContext == KubeContext("", "", "nil", "nil", "", FALSE)

\* what loadKubernetesSecurity can return: the context of a kubeconfig, or
\* the service account of the pod
Contexts ==
  {KubeContext("admin", "https://k8s.example", "ca1", "cert1", "", FALSE),
   KubeContext("ServiceAccount", "https://10.0.0.1:443", "ca2", "nil", "token2", TRUE)}
loadKubernetesSecurity == Contexts

\* variant with a slip: the token is not compared
isSameAs_noToken(scf, scf2) ==
  /\ scf.username = scf2.username /\ scf.serverURL = scf2.serverURL
  /\ scf.insecure = scf2.insecure
  /\ scf.serverCA = scf2.serverCA /\ scf.clientCert = scf2.clientCert

\* kubeContext.isSameAs
isSameAs(scf, scf2) ==
  IF \/ scf.username # scf2.username \/ scf.serverURL # scf2.serverURL
     \/ scf.token # scf2.token \/ scf.insecure # scf2.insecure
    THEN FALSE
  ELSE IF (scf.serverCA = "nil") # (scf2.serverCA = "nil") THEN FALSE
  ELSE IF scf.serverCA # "nil" /\ scf2.serverCA # "nil" /\ scf.serverCA # scf2.serverCA
    THEN FALSE
  ELSE IF (scf.clientCert = "nil") # (scf2.clientCert = "nil") THEN FALSE
  ELSE IF scf.clientCert # "nil" /\ scf2.clientCert # "nil" /\ scf.clientCert # scf2.clientCert
    THEN FALSE
  ELSE TRUE

\* the body of the refresh worker under the lock
Install(stored, loaded) == IF ~isSameAs(stored, loaded) THEN loaded ELSE stored

\* the endpoint's sync.RWMutex
KCanLock_ignoreReaders(rd, wr) == ~wr
KCanLock(rd, wr) == ~wr /\ rd = {}
KCanRLock(wr) == ~wr

\* the tls.Config an executor builds from its snapshot
tlsConfig(cc) ==
  [InsecureSkipVerify |-> cc.insecure,
   RootCAs |-> IF cc.serverCA # "nil" THEN {cc.serverCA} ELSE {},
   Certificates |-> IF cc.clientCert # "nil" THEN <<cc.clientCert>> ELSE << >>]

\* the tunneled request: its URI and the Authorization values the client sent
URI == "/api/v1/pods"
ReqAuthorization == <<"Basic Zm9v">>

\* the URL of the outbound request and its Authorization values
RequestURL(cc) == <<cc.serverURL, URI>>
Authorization(cc, values) ==
  IF Len(cc.token) > 0 THEN <<<<"Bearer ", cc.token>>>> ELSE values

\* the headers of a tunneled request: a list of HttpHeader, name and values
TunnelHeaders ==
  LET hs == {[Name |-> n, Values |-> v] :
               n \in {"Accept", "Authorization", "authorization"},
               v \in {<< >>, <<"v1">>, <<"v1", "v2">>}}
  IN  {<< >>} \cup {<<h>> : h \in hs} \cup {<<h1, h2>> : h1 \in hs, h2 \in hs}

\* http.Header: Add appends a value under the canonical form of the key, Set
\* replaces the values under it by one value
CanonicalHeaderKey(k) == IF k = "authorization" THEN "Authorization" ELSE k
HeaderAdd_replace(h, k, v) ==
  [n \in DOMAIN h \cup {CanonicalHeaderKey(k)} |->
     IF n = CanonicalHeaderKey(k) THEN <<v>> ELSE h[n]]
HeaderAdd(h, k, v) ==
  [n \in DOMAIN h \cup {CanonicalHeaderKey(k)} |->
     IF n = CanonicalHeaderKey(k)
       THEN (IF n \in DOMAIN h THEN Append(h[n], v) ELSE <<v>>)
       ELSE h[n]]
HeaderSet(h, k, v) ==
  [n \in DOMAIN h \cup {CanonicalHeaderKey(k)} |->
     IF n = CanonicalHeaderKey(k) THEN <<v>> ELSE h[n]]

\* the header of the outbound request: the loops over req.Headers and their
\* values, from header i and value j on, then the token
RECURSIVE AddHeaders(_, _, _, _)
AddHeaders(h, headers, i, j) ==
  IF i > Len(headers) THEN h
  ELSE IF j > Len(headers[i].Values) THEN AddHeaders(h, headers, i + 1, 1)
  ELSE AddHeaders(HeaderAdd(h, headers[i].Name, headers[i].Values[j]), headers, i, j + 1)
OutboundHeader(headers, token) ==
  LET h == AddHeaders(<< >>, headers, 1, 1)
  IN  IF Len(token) > 0 THEN HeaderSet(h, "Authorization", "Bearer " \o token) ELSE h

\* what an executor has built so far
NoCallBuilt ==
  [tls |-> tlsConfig(NoContext), url |-> << >>, authorization |-> << >>]

\* the frames; body is the number of bytes of the body
makeBadGatewayResponse(id) ==
  [type |-> "HttpTunnelResponse", id |-> id, status |-> 502, body |-> 0,
   by |-> "makeBadGatewayResponse"]
makeResponse(id, status) ==
  [type |-> "HttpTunnelResponse", id |-> id, status |-> status, body |-> 0,
   by |-> "makeResponse"]
makeChunkedResponse(id, n) ==
  [type |-> "HttpTunnelChunkedResponse", id |-> id, status |-> 0, body |-> n,
   by |-> "makeChunkedResponse"]

\* status codes of the outbound responses
Statuses == {200}

\* the frames sent when the request cannot be built or executed
FailFrames_twice(id) == <<makeBadGatewayResponse(id), makeBadGatewayResponse(id)>>
FailFrames(id) == <<makeBadGatewayResponse(id)>>

\* the frames sent once client.Do has returned a response
HeaderFrames_none(id, status) == << >>
HeaderFrames(id, status) == <<makeResponse(id, status)>>

\* what get.Body.Read can return with l bytes left: n bytes and an error
ReadResults(l, isCancelled) ==
  {r \in (0..Min(BufLen, l)) \X {"nil", "EOF", "error", "Canceled"} :
     /\ r[2] = "EOF" => r[1] = l
     /\ r[2] = "Canceled" => isCancelled}

\* one turn of the read loop: the frames it sends and whether it returns
ReadFrames_terminalOnly(id, n, err) ==
  IF err = "EOF" THEN <<makeChunkedResponse(id, 0)>>
  ELSE (IF n > 0 THEN <<makeChunkedResponse(id, n)>> ELSE << >>)
         \o (IF err \in {"nil", "Canceled"} THEN << >> ELSE <<makeChunkedResponse(id, 0)>>)
ReadFrames(id, n, err) ==
  (IF n > 0 THEN <<makeChunkedResponse(id, n)>> ELSE << >>)
    \o (IF err = "EOF" THEN <<makeChunkedResponse(id, 0)>>
        ELSE IF err = "Canceled" THEN << >>
        ELSE IF err # "nil" THEN <<makeChunkedResponse(id, 0)>>
        ELSE << >>)
ReadReturns_never(err) == FALSE
ReadReturns(err) == err # "nil"

\* the endpoint after MakeKubernetesEndpoint loaded ctx, no request started
KubeInit(ctx) ==
  /\ f = ctx
  /\ kreaders = {}
  /\ kwriter = FALSE
  /\ saf = NoContext
  /\ xpc = [x \in X |-> "start"]
  /\ c = [x \in X |-> NoContext]
  /\ at = [x \in X |-> NoContext]
  /\ call = [x \in X |-> NoCallBuilt]
  /\ registry = {}
  /\ cancelled = {}
  /\ left = [x \in X |-> 0]
  /\ out = [x \in X |-> << >>]
  /\ sent = [x \in X |-> << >>]
  /\ fatal = "none"
  /\ draining = TRUE

(***************************************************************************)
(* Identity binding: the certificate name in the OU of a certificate.      *)
(***************************************************************************)
\* the text of an OU: well-formed JSON or not, and the members of the object
Malformed == [wf |-> FALSE, obj |-> << >>]
Object(members) == [wf |-> TRUE, obj |-> members]

OUs ==
  {Malformed,
   Object(<< >>),
   Object("purpose" :> "control"),
   Object("purpose" :> "xxx"),
   Object("purpose" :> "agent" @@ "agent" :> "a"),
   Object("purpose" :> "agent" @@ "agent" :> "b"),
   Object("purpose" :> "agent"),
   Object("purpose" :> "service" @@ "agent" :> "a" @@ "name" :> "svc"),
   Object("purpose" :> "control" @@ "agent" :> "a")}

\* x509.Certificate, as far as the subject's OrganizationalUnit
Certificate(ous) == [OrganizationalUnit |-> ous]
Certificates == {Certificate(<< >>)} \cup {Certificate(<<ou>>) : ou \in OUs}
CACertificate == Certificate(<< >>)

\* ca.CertificateName and its zero value
CertificateName(p, a, n) == [Purpose |-> p, Agent |-> a, Name |-> n]
NoCertificateName == CertificateName("", "", "")

\* json.Unmarshal into a CertificateName: absent members keep the zero value
Member(obj, k) == IF k \in DOMAIN obj THEN obj[k] ELSE ""
Unmarshal(ou) ==
  IF ~ou.wf THEN [names |-> NoCertificateName, err |-> "error"]
  ELSE [names |-> CertificateName(Member(ou.obj, "purpose"), Member(ou.obj, "agent"),
                                  Member(ou.obj, "name")),
        err |-> "nil"]

\* ca.GetCertificateNameFromCert
GetCertificateNameFromCert(cert) ==
  IF Len(cert.OrganizationalUnit) = 0
    THEN [names |-> NoCertificateName, err |-> "error"]
    ELSE Unmarshal(cert.OrganizationalUnit[1])

\* getAgentNameFromCertificate: the name and the error; "error" is an error
\* that carries no gRPC status
getAgentNameFromCertificate_anyPurpose(cert) ==
  LET r == GetCertificateNameFromCert(cert)
  IN  IF r.err # "nil" THEN [name |-> "", err |-> r.err]
      ELSE [name |-> r.names.Agent, err |-> "nil"]
getAgentNameFromCertificate(cert) ==
  LET r == GetCertificateNameFromCert(cert)
  IN  IF r.err # "nil" THEN [name |-> "", err |-> r.err]
      ELSE IF r.names.Purpose # "agent" THEN [name |-> "", err |-> "error"]
      ELSE [name |-> r.names.Agent, err |-> "nil"]

\* the context of an incoming stream: the peer, its credentials, its verified chains
PeerContext(p, a, ch) == [peer |-> p, auth |-> a, chains |-> ch]
VerifiedChains ==
  {<< >>, << << >> >>}
    \cup {<< <<leaf>> >> : leaf \in Certificates}
    \cup {<< <<leaf, CACertificate>> >> : leaf \in Certificates}
PeerContexts ==
  {PeerContext(FALSE, "", << >>)}
    \cup {PeerContext(TRUE, a, ch) : a \in {"TLSInfo", "other"}, ch \in VerifiedChains}

\* getAgentNameFromContext; "Unauthenticated" is status.Error(codes.Unauthenticated, ...)
getAgentNameFromContext(ctx) ==
  IF ~ctx.peer THEN [name |-> "", err |-> "Unauthenticated"]
  ELSE IF ctx.auth # "TLSInfo" THEN [name |-> "", err |-> "Unauthenticated"]
  ELSE IF Len(ctx.chains) = 0 \/ Len(ctx.chains[1]) = 0
    THEN [name |-> "", err |-> "Unauthenticated"]
  ELSE getAgentNameFromCertificate(ctx.chains[1][1])

\* status.Code: the gRPC code a caller of the RPC sees for an error
Code(err) ==
  CASE err = "nil" -> "OK"
    [] err = "Unauthenticated" -> "Unauthenticated"
    [] OTHER -> "Unknown"

\* a request to the CNC server: the peer certificates and the method
Methods == {"GET", "POST", "PUT"}
CNCRequest(certs, meth) == [PeerCertificates |-> certs, Method |-> meth]
CNCRequests ==
  {CNCRequest(certs, meth) :
     certs \in {<< >>} \cup {<<cert>> : cert \in Certificates}, meth \in Methods}

\* CNCServer.authenticate(method, h) applied to a request: whether h is called
authenticate_anyMethod(method, r) ==
  IF Len(r.PeerCertificates) = 0 THEN FALSE
  ELSE LET n == GetCertificateNameFromCert(r.PeerCertificates[1])
       IN  n.err = "nil" /\ n.names.Purpose = "control"
authenticate(method, r) ==
  IF Len(r.PeerCertificates) = 0 THEN FALSE
  ELSE LET n == GetCertificateNameFromCert(r.PeerCertificates[1])
       IN  IF n.err # "nil" THEN FALSE
           ELSE IF n.names.Purpose # "control" THEN FALSE
           ELSE IF r.Method # method THEN FALSE
           ELSE TRUE

\* the record of an identity check
Ident(o, i, n, e, h) == [op |-> o, in |-> i, name |-> n, err |-> e, called |-> h]
NoIdent == Ident("none", << >>, "", "nil", FALSE)
IdentInit == ident = NoIdent

\* the CNC REST surface: the POST endpoints and the JSON bodies sent to them.
\* A body is malformed JSON or an object; a member that is absent decodes to "".
CNCEndpoints ==
  {"generateKubectlComponents", "generateAgentManifestComponents",
   "generateServiceCredentials", "generateControlCredentials"}
CNCBodies ==
  {Malformed} \cup
  {Object(a @@ n @@ t) :
     a \in {<< >>, [agentName |-> "agent smith"]},
     n \in {<< >>, [name |-> "alice smith"]},
     t \in {<< >>, [type |-> "jenkins"], [type |-> "aws"]}}

\* the configuration and the authority a CNC server is made with
mockConfig ==
  [AgentAdvertisePort |-> 1234, ControlURL |-> "https://control.local",
   ServiceURL |-> "https://service.local", AgentHostname |-> "agent.local"]
mockAuthority == [ca |-> "a", cert |-> "b", key |-> "c", GetCACert |-> "base64-cacert"]

\* the name fields a request to the endpoint must carry, in the order checked
Required(e) ==
  CASE e = "generateKubectlComponents" -> <<"agentName", "name">>
    [] e = "generateAgentManifestComponents" -> <<"agentName">>
    [] e = "generateServiceCredentials" -> <<"agentName", "name">>
    [] e = "generateControlCredentials" -> <<"name">>

\* the request's Validate: "" when every required field is there, else the message
Validate_none(e, obj) == ""
Validate(e, obj) ==
  LET missing == {i \in 1..Len(Required(e)) : Member(obj, Required(e)[i]) = ""}
  IN  IF missing = {} THEN ""
      ELSE LET i == CHOOSE k \in missing : \A j \in missing : k <= j
           IN  "'" \o Required(e)[i] \o "' is invalid"

\* a CNC response: status code, content-type header and JSON body
CNCResponse(code, ct, body) == [status |-> code, contentType |-> ct, body |-> body]
FailRequest_plain(msg, code) ==
  CNCResponse(code, "text/plain", [error |-> [message |-> msg]])
FailRequest(msg, code) ==
  CNCResponse(code, "application/json", [error |-> [message |-> msg]])

\* the credential generateServiceCredentials makes for a service type
Credential_basic(type) ==
  [credentialType |-> "basic",
   credentials |-> [username |-> "generated", password |-> "generated"]]
Credential(type) ==
  IF type = "aws"
  THEN [credentialType |-> "aws",
        credentials |-> [awsAccessKey |-> "generated", awsSecretAccessKey |-> "generated"]]
  ELSE [credentialType |-> "basic",
        credentials |-> [username |-> "generated", password |-> "generated"]]

\* the handler of a POST endpoint applied to a request body
Handle(e, b) ==
  IF ~b.wf THEN FailRequest("json: cannot unmarshal", 400)
  ELSE IF Validate(e, b.obj) # "" THEN FailRequest(Validate(e, b.obj), 400)
  ELSE LET agentName == Member(b.obj, "agentName")
           name == Member(b.obj, "name")
           type == Member(b.obj, "type")
           body ==
             CASE e = "generateKubectlComponents" ->
                    [agentName |-> agentName, name |-> name,
                     serverUrl |-> mockConfig.ServiceURL,
                     userCertificate |-> mockAuthority.cert,
                     userKey |-> mockAuthority.key, caCert |-> mockAuthority.ca]
               [] e = "generateAgentManifestComponents" ->
                    [agentName |-> agentName,
                     serverHostname |-> mockConfig.AgentHostname,
                     serverPort |-> mockConfig.AgentAdvertisePort,
                     agentCertificate |-> mockAuthority.cert,
                     agentKey |-> mockAuthority.key, caCert |-> mockAuthority.ca]
               [] e = "generateServiceCredentials" ->
                    [agentName |-> agentName, name |-> name, type |-> type,
                     url |-> mockConfig.ServiceURL,
                     caCert |-> mockAuthority.GetCACert] @@ Credential(type)
               [] e = "generateControlCredentials" ->
                    [name |-> name, url |-> mockConfig.ControlURL,
                     certificate |-> mockAuthority.cert,
                     key |-> mockAuthority.key, caCert |-> mockAuthority.ca]
       IN  CNCResponse(200, "application/json", body)

\* the agents a CNC server is made with in its tests: what GetStatistics returns
mockAgents == [foo |-> "foostring"]

\* the statistics handler: what the agents' GetStatistics returned, embedded
getStatistics(stats) ==
  CNCResponse(200, "application/json", [connectedAgents |-> stats])

\* the environment variable JAEGER_TRACE_URL: set or not, and its value
Envars == {[set |-> FALSE, value |-> ""], [set |-> TRUE, value |-> "http://jaeger.env"]}

\* util.GetEnvar(name, defaultValue)
GetEnvar(env, defaultValue) == IF env.set THEN env.value ELSE defaultValue

\* main: the endpoint the tracer provider is made with, from the value of
\* --jaeger-endpoint and the environment variable JAEGER_TRACE_URL
TraceEndpoint(jaegerEndpoint, env) ==
  IF jaegerEndpoint # "" THEN GetEnvar(env, "") ELSE jaegerEndpoint

\* the record of a request served by a CNC handler
Served(e, b, r) == [op |-> "serve", in |-> [endpoint |-> e, body |-> b], resp |-> r]

(***************************************************************************)
(* Init.                                                                   *)
(***************************************************************************)
InitTable ==
  /\ m = MakeRoutes
  /\ gauge = ZeroGauge
  /\ readers = {}
  /\ writer = NoG
  /\ closed = [r \in Routes |-> FALSE]
  /\ chan = [r \in Routes |-> << >>]
  /\ pc = [g \in G |-> "idle"]
  /\ state = [g \in G |-> NoRoute]
  /\ ep = [g \in G |-> NoSearch]
  /\ route = [g \in G |-> NoRoute]
  /\ last = NoCall

Init ==
  /\ InitTable
  /\ life = [r \in Routes |-> "off"]
  /\ hist = HistOff
  /\ KubeInit(CHOOSE ctx \in Contexts : ctx.username = "admin")
  /\ IdentInit
  /\ rid = FreshIds

\* the same, recording which routes were added and removed
InitLife ==
  /\ InitTable
  /\ life = [r \in Routes |-> "never"]
  /\ hist = HistOff
  /\ KubeInit(CHOOSE ctx \in Contexts : ctx.username = "admin")
  /\ IdentInit
  /\ rid = FreshIds

\* the same, recording the table before the most recent Add
InitHist ==
  /\ InitTable
  /\ life = [r \in Routes |-> "off"]
  /\ hist = NoHist
  /\ KubeInit(CHOOSE ctx \in Contexts : ctx.username = "admin")
  /\ IdentInit
  /\ rid = FreshIds

(***************************************************************************)
(* Add: Lock, the body, Unlock.                                            *)
(***************************************************************************)
Add(g, r) ==
  /\ pc[g] = "idle"
  /\ Len(Listed(m, GetName(r))) < MaxLen
  /\ CanLock
  /\ m' = AddMap(m, r)
  /\ gauge' = AddGauge(gauge, r)
  /\ last' = Call("Add", r, NoSearch, "", NoRoute, "", "nil")
  /\ life' = LifeAdd(life, r)
  /\ hist' = HistAdd(hist, r, m, gauge)
  /\ UNCHANGED <<readers, writer, closed, chan, pc, state, ep, route>>
  /\ UNCHANGED <<kvars, ident>>

(***************************************************************************)
(* Remove: Lock; then Close, the body, Unlock.                             *)
(***************************************************************************)
RemoveLock(g, r) ==
  /\ pc[g] = "idle"
  /\ CanLock
  /\ writer' = g
  /\ pc' = [pc EXCEPT ![g] = "Remove_Close"]
  /\ state' = [state EXCEPT ![g] = r]
  /\ last' = NoCall
  /\ UNCHANGED <<m, gauge, readers, closed, chan, ep, route, life, hist>>
  /\ UNCHANGED <<kvars, ident>>

Remove(g) ==
  /\ pc[g] = "Remove_Close"
  /\ closed' = Close(closed, state[g])
  /\ m' = RemoveMap(m, state[g])
  /\ gauge' = RemoveGauge(gauge, m, state[g])
  /\ writer' = NoG
  /\ pc' = [pc EXCEPT ![g] = "idle"]
  /\ state' = [state EXCEPT ![g] = NoRoute]
  /\ last' = Call("Remove", state[g], NoSearch, "", NoRoute, "", "nil")
  /\ life' = LifeRemove(life, state[g])
  /\ hist' = HistRemove(hist, state[g])
  /\ UNCHANGED <<readers, chan, ep, route>>
  /\ UNCHANGED <<kvars, ident>>

(***************************************************************************)
(* Send: RLock and findService; then Route.Send, RUnlock.                  *)
(***************************************************************************)
\* findService fails: Send returns "", err
SendNoRoute(g, s) ==
  /\ pc[g] = "idle"
  /\ CanRLock
  /\ findService(m, s) = {}
  /\ last' = Call("Send", NoRoute, s, "", NoRoute, "", "no-route")
  /\ UNCHANGED <<m, gauge, readers, writer, closed, chan, pc, state, ep, route, life, hist>>
  /\ UNCHANGED <<kvars, ident>>

\* findService picks one of the possible routes at random
SendFind(g, s) ==
  /\ pc[g] = "idle"
  /\ CanRLock
  /\ \E r \in findService(m, s) :
       route' = [route EXCEPT ![g] = r]
  /\ readers' = readers \cup {g}
  /\ ep' = [ep EXCEPT ![g] = s]
  /\ pc' = [pc EXCEPT ![g] = "Send_route"]
  /\ last' = NoCall
  /\ UNCHANGED <<m, gauge, writer, closed, chan, state, life, hist>>
  /\ UNCHANGED <<kvars, ident>>

\* route.Send(message) returns; Send returns session, nil
SendRoute(g) ==
  /\ pc[g] = "Send_route"
  /\ RouteSendReady(chan, route[g])
  /\ chan' = RouteSend(chan, route[g], Message)
  /\ readers' = readers \ {g}
  /\ pc' = [pc EXCEPT ![g] = "idle"]
  /\ ep' = [ep EXCEPT ![g] = NoSearch]
  /\ route' = [route EXCEPT ![g] = NoRoute]
  /\ last' = Call("Send", NoRoute, ep[g], "", route[g], SendResult(route[g], ep[g]), "nil")
  /\ UNCHANGED <<m, gauge, writer, closed, state, life, hist>>
  /\ UNCHANGED <<kvars, ident>>

(***************************************************************************)
(* Cancel.                                                                 *)
(***************************************************************************)
\* the session is not set: an error, before the lock is taken
CancelNoSession(g, s, t) ==
  /\ pc[g] = "idle"
  /\ NoSession(s)
  /\ last' = Call("Cancel", NoRoute, s, t, NoRoute, "", "no-session")
  /\ UNCHANGED <<m, gauge, readers, writer, closed, chan, pc, state, ep, route, life, hist>>
  /\ UNCHANGED <<kvars, ident>>

\* RLock, the loop over the routes of the name, RUnlock
Cancel(g, s, t) ==
  /\ pc[g] = "idle"
  /\ ~NoSession(s)
  /\ CanRLock
  /\ LET r == CancelTarget(m, s)
     IN  last' = Call("Cancel", NoRoute, s, t, r, "",
                      IF r = NoRoute THEN "no-route" ELSE "nil")
  /\ UNCHANGED <<m, gauge, readers, writer, closed, chan, pc, state, ep, route, life, hist>>
  /\ UNCHANGED <<kvars, ident>>

(***************************************************************************)
(* The writer of a live session takes the next message off its channel.    *)
(***************************************************************************)
Drain(r) ==
  /\ ~closed[r]
  /\ Len(chan[r]) > 0
  /\ chan' = [chan EXCEPT ![r] = Tail(@)]
  /\ last' = NoCall
  /\ UNCHANGED <<m, gauge, readers, writer, closed, pc, state, ep, route, life, hist>>
  /\ UNCHANGED <<kvars, ident>>

Next ==
  \/ \E g \in G, r \in Routes : Add(g, r)
  \/ \E g \in G, r \in Routes : RemoveLock(g, r)
  \/ \E g \in G : Remove(g)
  \/ \E g \in G, s \in SendSearches : SendNoRoute(g, s)
  \/ \E g \in G, s \in SendSearches : SendFind(g, s)
  \/ \E g \in G : SendRoute(g)
  \/ \E g \in G, s \in CancelSearches, t \in Ids : CancelNoSession(g, s, t)
  \/ \E g \in G, s \in CancelSearches, t \in Ids : Cancel(g, s, t)
  \/ \E r \in Routes : Drain(r)

Spec == Init /\ [][Next]_vars
SpecLife == InitLife /\ [][Next]_vars
SpecHist == InitHist /\ [][Next]_vars

\* the CNC statistics handler calls GetStatistics under the read lock and
\* embeds what it returns in its response
Statistics(g) ==
  /\ pc[g] = "idle"
  /\ CanRLock
  /\ \E ret \in GetStatistics(m) :
       last' = [op |-> "GetStatistics", ret |-> ret, resp |-> getStatistics(ret)]
  /\ UNCHANGED <<m, gauge, readers, writer, closed, chan, pc, state, ep, route, life, hist>>
  /\ UNCHANGED <<kvars, ident>>

NextStats ==
  \/ Next
  \/ \E g \in G : Statistics(g)

SpecStats == Init /\ [][NextStats]_vars

(***************************************************************************)
(* Send with the call of rnd.Intn as a step of its own: findService reads  *)
(* the map under the read lock and, with a possible route, calls rnd.Intn. *)
(***************************************************************************)
\* RLock, findService up to the call of rnd.Intn
SendEnter(g, s) ==
  /\ pc[g] = "idle"
  /\ CanRLock
  /\ findService(m, s) # {}
  /\ readers' = readers \cup {g}
  /\ ep' = [ep EXCEPT ![g] = s]
  /\ pc' = [pc EXCEPT ![g] = "Send_Intn"]
  /\ last' = NoCall
  /\ UNCHANGED <<m, gauge, writer, closed, chan, state, route, life, hist>>
  /\ UNCHANGED <<kvars, ident>>

\* rnd.Intn returns and findService returns the route picked. rnd is a
\* *rand.Rand, which keeps its state without a lock: a call that overlaps
\* another goroutine's call returns any index in range or panics, and a
\* panic ends the process, every goroutine and every session with it.
SendIntn(g) ==
  /\ pc[g] = "Send_Intn"
  /\ \/ /\ \E r \in findService(m, ep[g]) : route' = [route EXCEPT ![g] = r]
        /\ pc' = [pc EXCEPT ![g] = "Send_route"]
        /\ UNCHANGED closed
     \/ /\ \E g2 \in G \ {g} : pc[g2] = "Send_Intn"
        /\ pc' = [g2 \in G |-> "panic"]
        /\ closed' = [r \in Routes |-> TRUE]
        /\ UNCHANGED route
  /\ last' = NoCall
  /\ UNCHANGED <<m, gauge, readers, writer, chan, state, ep, life, hist>>
  /\ UNCHANGED <<kvars, ident>>

NextRnd ==
  \/ \E g \in G, r \in Routes : Add(g, r)
  \/ \E g \in G, r \in Routes : RemoveLock(g, r)
  \/ \E g \in G : Remove(g)
  \/ \E g \in G, s \in SendSearches : SendNoRoute(g, s)
  \/ \E g \in G, s \in SendSearches : SendEnter(g, s)
  \/ \E g \in G : SendIntn(g)
  \/ \E g \in G : SendRoute(g)
  \/ \E g \in G, s \in CancelSearches, t \in Ids : CancelNoSession(g, s, t)
  \/ \E g \in G, s \in CancelSearches, t \in Ids : Cancel(g, s, t)
  \/ \E r \in Routes : Drain(r)

SpecRnd == Init /\ [][NextRnd]_vars

TypeOK ==
  /\ DOMAIN m \subseteq Names
  /\ \A n \in DOMAIN m : Len(m[n]) <= MaxLen /\ Range(m[n]) \subseteq Routes
  /\ readers \subseteq G
  /\ writer \in G \cup {NoG}
  /\ \A r \in Routes : Len(chan[r]) <= ChanCap

(***************************************************************************)
(* The Kubernetes endpoint executor: executeHTTPRequest, one goroutine per *)
(* request, and the refresh worker updateServerContextTicker.              *)
(***************************************************************************)
\* position of a field in Fields
FieldIndex(fld) == CHOOSE k \in 1..Len(Fields) : Fields[k] = fld

\* makeServerContextFields: RLock
SnapshotRLock(x) ==
  /\ fatal = "none"
  /\ xpc[x] = "start"
  /\ KCanRLock(kwriter)
  /\ kreaders' = kreaders \cup {x}
  /\ at' = [at EXCEPT ![x] = f]
  /\ xpc' = [xpc EXCEPT ![x] = Fields[1]]
  /\ UNCHANGED <<f, kwriter, saf, c, call, registry, cancelled, left, out, sent>>
  /\ UNCHANGED <<tvars, ident, fatal, rid, draining>>

\* makeServerContextFields: one field of ke.f is copied; after the last one
\* RUnlock, and the executor builds its tls.Config and its http.Client
SnapshotField(x) ==
  /\ fatal = "none"
  /\ xpc[x] \in Range(Fields)
  /\ LET fld == xpc[x]
         k == FieldIndex(fld)
         cx == [c[x] EXCEPT ![fld] = f[fld]]
     IN  /\ c' = [c EXCEPT ![x] = cx]
         /\ IF k < Len(Fields)
              THEN /\ xpc' = [xpc EXCEPT ![x] = Fields[k + 1]]
                   /\ UNCHANGED <<kreaders, call>>
              ELSE /\ xpc' = [xpc EXCEPT ![x] = "register"]
                   /\ kreaders' = kreaders \ {x}
                   /\ call' = [call EXCEPT ![x].tls = tlsConfig(cx)]
  /\ UNCHANGED <<f, kwriter, saf, at, registry, cancelled, left, out, sent>>
  /\ UNCHANGED <<tvars, ident, fatal, rid, draining>>

\* registerCancelFunction(req.Id, cancel)
Register(x) ==
  /\ fatal = "none"
  /\ xpc[x] = "register"
  /\ registry' = registerCancelFunction(registry, ReqId(x), x)
  /\ xpc' = [xpc EXCEPT ![x] = "build"]
  /\ UNCHANGED <<f, kreaders, kwriter, saf, c, at, call, cancelled, left, out, sent>>
  /\ UNCHANGED <<tvars, ident, fatal, rid, draining>>

\* http.NewRequestWithContext: the request is built, or a bad gateway response is due
NewRequest(x, ok) ==
  /\ fatal = "none"
  /\ xpc[x] = "build"
  /\ IF ok
       THEN /\ call' = [call EXCEPT ![x].url = RequestURL(c[x])]
            /\ xpc' = [xpc EXCEPT ![x] = "headers"]
            /\ out' = out
       ELSE /\ out' = [out EXCEPT ![x] = FailFrames(ReqId(x))]
            /\ xpc' = [xpc EXCEPT ![x] = "send_return"]
            /\ call' = call
  /\ UNCHANGED <<f, kreaders, kwriter, saf, c, at, registry, cancelled, left, sent>>
  /\ UNCHANGED <<tvars, ident, fatal, rid, draining>>

\* the headers are copied and the token is set, or (serviceconfig) copying fails
CopyHeaders(x, ok) ==
  /\ fatal = "none"
  /\ xpc[x] = "headers"
  /\ IF ok
       THEN /\ call' = [call EXCEPT ![x].authorization = Authorization(c[x], ReqAuthorization)]
            /\ xpc' = [xpc EXCEPT ![x] = "do"]
            /\ out' = out
       ELSE /\ out' = [out EXCEPT ![x] = FailFrames(ReqId(x))]
            /\ xpc' = [xpc EXCEPT ![x] = "send_return"]
            /\ call' = call
  /\ UNCHANGED <<f, kreaders, kwriter, saf, c, at, registry, cancelled, left, sent>>
  /\ UNCHANGED <<tvars, ident, fatal, rid, draining>>

\* client.Do returns a response with a status and a body of n bytes, or an error
ClientDo(x, ok, status, n) ==
  /\ fatal = "none"
  /\ xpc[x] = "do"
  /\ IF ok
       THEN /\ out' = [out EXCEPT ![x] = HeaderFrames(ReqId(x), status)]
            /\ left' = [left EXCEPT ![x] = n]
            /\ xpc' = [xpc EXCEPT ![x] = IF HeaderFrames(ReqId(x), status) = << >>
                                          THEN "read" ELSE "send"]
       ELSE /\ out' = [out EXCEPT ![x] = FailFrames(ReqId(x))]
            /\ xpc' = [xpc EXCEPT ![x] = "send_return"]
            /\ left' = left
  /\ UNCHANGED <<f, kreaders, kwriter, saf, c, at, call, registry, cancelled, sent>>
  /\ UNCHANGED <<tvars, ident, fatal, rid, draining>>

\* one get.Body.Read of the loop, with what the loop does with its result
BodyRead(x, n, err) ==
  /\ fatal = "none"
  /\ xpc[x] = "read"
  /\ <<n, err>> \in ReadResults(left[x], x \in cancelled)
  /\ left' = [left EXCEPT ![x] = @ - n]
  /\ out' = [out EXCEPT ![x] = ReadFrames(ReqId(x), n, err)]
  /\ xpc' = [xpc EXCEPT ![x] =
               IF ReadFrames(ReqId(x), n, err) = << >>
                 THEN (IF ReadReturns(err) THEN "return" ELSE "read")
                 ELSE (IF ReadReturns(err) THEN "send_return" ELSE "send")]
  /\ UNCHANGED <<f, kreaders, kwriter, saf, c, at, call, registry, cancelled, sent>>
  /\ UNCHANGED <<tvars, ident, fatal, rid, draining>>

\* dataflow <- frame: returns once the session's sender has received the frame
DataflowSend(x) ==
  /\ fatal = "none"
  /\ xpc[x] \in {"send", "send_return"}
  /\ Len(out[x]) > 0
  /\ draining
  /\ sent' = [sent EXCEPT ![x] = Append(@, Head(out[x]))]
  /\ out' = [out EXCEPT ![x] = Tail(@)]
  /\ xpc' = [xpc EXCEPT ![x] =
               IF Len(out[x]) > 1 THEN @
               ELSE IF @ = "send" THEN "read" ELSE "return"]
  /\ UNCHANGED <<f, kreaders, kwriter, saf, c, at, call, registry, cancelled, left>>
  /\ UNCHANGED <<tvars, ident, fatal, rid, draining>>

\* variant with a slip: the goroutine ends without the deferred call
Unregister_skip(x) ==
  /\ fatal = "none"
  /\ xpc[x] = "return"
  /\ xpc' = [xpc EXCEPT ![x] = "done"]
  /\ c' = [c EXCEPT ![x] = NoContext]
  /\ at' = [at EXCEPT ![x] = NoContext]
  /\ call' = [call EXCEPT ![x] = NoCallBuilt]
  /\ left' = [left EXCEPT ![x] = 0]
  /\ UNCHANGED <<f, kreaders, kwriter, saf, registry, cancelled, out, sent>>
  /\ UNCHANGED <<tvars, ident, fatal, rid, draining>>

\* the deferred unregisterCancelFunction(req.Id); the goroutine ends, and with
\* it its snapshot, its client and the response it was reading
Unregister(x) ==
  /\ fatal = "none"
  /\ xpc[x] = "return"
  /\ registry' = unregisterCancelFunction(registry, ReqId(x))
  /\ xpc' = [xpc EXCEPT ![x] = "done"]
  /\ c' = [c EXCEPT ![x] = NoContext]
  /\ at' = [at EXCEPT ![x] = NoContext]
  /\ call' = [call EXCEPT ![x] = NoCallBuilt]
  /\ left' = [left EXCEPT ![x] = 0]
  /\ UNCHANGED <<f, kreaders, kwriter, saf, cancelled, out, sent>>
  /\ UNCHANGED <<tvars, ident, fatal, rid, draining>>

\* a CancelRequest arrives for an id whose registered cancel function is the
\* one of x: the function is called
CancelFunction(x) ==
  /\ fatal = "none"
  /\ <<ReqId(x), x>> \in registry
  /\ x \notin cancelled
  /\ cancelled' = cancelled \cup {x}
  /\ UNCHANGED <<f, kreaders, kwriter, saf, xpc, c, at, call, registry, left, out, sent>>
  /\ UNCHANGED <<tvars, ident, fatal, rid, draining>>

\* updateServerContextTicker: saf := loadKubernetesSecurity()
TickerLoad(ctx) ==
  /\ fatal = "none"
  /\ saf = NoContext
  /\ ~kwriter
  /\ saf' = ctx
  /\ UNCHANGED <<f, kreaders, kwriter, xpc, c, at, call, registry, cancelled, left, out, sent>>
  /\ UNCHANGED <<tvars, ident, fatal, rid, draining>>

\* updateServerContextTicker: loadKubernetesSecurity finds the kubeconfig
\* invalid, or no kubeconfig and no service account, and calls log.Fatalf
TickerFatal ==
  /\ fatal = "none"
  /\ saf = NoContext
  /\ ~kwriter
  /\ fatal' = "refresh"
  /\ UNCHANGED <<f, kreaders, kwriter, saf, xpc, c, at, call, registry, cancelled, left,
                 out, sent, rid, draining>>
  /\ UNCHANGED <<tvars, ident>>

\* updateServerContextTicker: Lock
TickerLock ==
  /\ fatal = "none"
  /\ saf # NoContext
  /\ KCanLock(kreaders, kwriter)
  /\ kwriter' = TRUE
  /\ UNCHANGED <<f, kreaders, saf, xpc, c, at, call, registry, cancelled, left, out, sent>>
  /\ UNCHANGED <<tvars, ident, fatal, rid, draining>>

\* updateServerContextTicker: the comparison, the assignment, Unlock; then the sleep
TickerInstall ==
  /\ fatal = "none"
  /\ kwriter
  /\ f' = Install(f, saf)
  /\ kwriter' = FALSE
  /\ saf' = NoContext
  /\ UNCHANGED <<kreaders, xpc, c, at, call, registry, cancelled, left, out, sent>>
  /\ UNCHANGED <<tvars, ident, fatal, rid, draining>>

NextKube ==
  \/ \E x \in X : SnapshotRLock(x)
  \/ \E x \in X : SnapshotField(x)
  \/ \E x \in X : Register(x)
  \/ \E x \in X, ok \in BOOLEAN : NewRequest(x, ok)
  \/ \E x \in X, ok \in BOOLEAN : CopyHeaders(x, ok)
  \/ \E x \in X, ok \in BOOLEAN, status \in Statuses, n \in 0..MaxBody : ClientDo(x, ok, status, n)
  \/ \E x \in X, n \in 0..MaxBody, err \in {"nil", "EOF", "error", "Canceled"} : BodyRead(x, n, err)
  \/ \E x \in X : DataflowSend(x)
  \/ \E x \in X : Unregister(x)
  \/ \E x \in X : CancelFunction(x)
  \/ \E ctx \in loadKubernetesSecurity : TickerLoad(ctx)
  \/ TickerFatal
  \/ TickerLock
  \/ TickerInstall

\* the endpoint is made with whatever context the first load returns
InitKube ==
  /\ InitTable
  /\ life = [r \in Routes |-> "off"]
  /\ hist = HistOff
  /\ \E ctx \in loadKubernetesSecurity : KubeInit(ctx)
  /\ IdentInit
  /\ rid = FreshIds

SpecKube == InitKube /\ [][NextKube]_vars

\* two requests that carry the same id
InitDup ==
  /\ InitTable
  /\ life = [r \in Routes |-> "off"]
  /\ hist = HistOff
  /\ \E ctx \in loadKubernetesSecurity : KubeInit(ctx)
  /\ IdentInit
  /\ rid = [x \in X |-> "t1"]

SpecDup == InitDup /\ [][NextKube]_vars

\* the session ends: its sender receives no more
SessionGone ==
  /\ fatal = "none"
  /\ draining
  /\ draining' = FALSE
  /\ UNCHANGED <<f, kreaders, kwriter, saf, xpc, c, at, call, registry, cancelled, left,
                 out, sent, fatal, rid>>
  /\ UNCHANGED <<tvars, ident>>

\* the steps of the executor x
Exec(x) ==
  \/ SnapshotRLock(x)
  \/ SnapshotField(x)
  \/ Register(x)
  \/ \E ok \in BOOLEAN : NewRequest(x, ok)
  \/ \E ok \in BOOLEAN : CopyHeaders(x, ok)
  \/ \E ok \in BOOLEAN, status \in Statuses, n \in 0..MaxBody : ClientDo(x, ok, status, n)
  \/ \E n \in 0..MaxBody, err \in {"nil", "EOF", "error", "Canceled"} : BodyRead(x, n, err)
  \/ DataflowSend(x)
  \/ Unregister(x)

\* a running process whose sessions can end
NextLive ==
  \/ \E x \in X : Exec(x)
  \/ \E x \in X : CancelFunction(x)
  \/ \E ctx \in loadKubernetesSecurity : TickerLoad(ctx)
  \/ TickerLock
  \/ TickerInstall
  \/ SessionGone

\* every goroutine that can take a step takes one, the refresh worker
\* releases the lock it holds, and a read of the body of a response whose
\* context is cancelled returns the error of the context
SpecKubeLive ==
  /\ InitKube /\ [][NextLive]_vars
  /\ \A x \in X : WF_vars(Exec(x))
  /\ \A x \in X : WF_vars(\E n \in 0..MaxBody : BodyRead(x, n, "Canceled"))
  /\ WF_vars(TickerInstall)

\* a read of the loop that returns nothing, all that fits the buffer, or one
\* byte less
ChunkRead(x, err) ==
  \E n \in {0, Min(BufLen, left[x]), Min(BufLen, left[x]) - 1} \cap Nat : BodyRead(x, n, err)

\* responses whose body does not fit the buffer: the body has no, one,
\* BufLen + 1 or 2 * BufLen bytes
NextChunk ==
  \/ \E x \in X : SnapshotRLock(x)
  \/ \E x \in X : SnapshotField(x)
  \/ \E x \in X : Register(x)
  \/ \E x \in X : NewRequest(x, TRUE)
  \/ \E x \in X : CopyHeaders(x, TRUE)
  \/ \E x \in X, status \in Statuses, n \in {0, 1, BufLen + 1, 2 * BufLen} :
       ClientDo(x, TRUE, status, n)
  \/ \E x \in X, err \in {"nil", "EOF", "error", "Canceled"} : ChunkRead(x, err)
  \/ \E x \in X : DataflowSend(x)
  \/ \E x \in X : Unregister(x)
  \/ \E x \in X : CancelFunction(x)

SpecChunk == InitKube /\ [][NextChunk]_vars

\* the refresh worker alone, over contexts that differ in any of their fields:
\* each field has two values, the certificates three (none and two)
RefreshContexts ==
  {KubeContext(u, url, ca, cert, tok, ins) :
     u \in {"admin", "ServiceAccount"}, url \in {"https://k8s.example", "https://10.0.0.1:443"},
     ca \in {"nil", "ca1", "ca2"}, cert \in {"nil", "cert1", "cert2"},
     tok \in {"", "token2"}, ins \in BOOLEAN}

InitRefresh ==
  /\ InitTable
  /\ life = [r \in Routes |-> "off"]
  /\ hist = HistOff
  /\ \E ctx \in RefreshContexts : KubeInit(ctx)
  /\ IdentInit
  /\ rid = FreshIds

NextRefresh ==
  \/ \E ctx \in RefreshContexts : TickerLoad(ctx)
  \/ TickerLock
  \/ TickerInstall

SpecRefresh == InitRefresh /\ [][NextRefresh]_vars

(***************************************************************************)
(* The identity checks: one step per call.                                 *)
(***************************************************************************)
\* a stream is accepted: getAgentNameFromContext on its context
AgentNameFromContext(ctx) ==
  /\ LET r == getAgentNameFromContext(ctx)
     IN  ident' = Ident("getAgentNameFromContext", ctx, r.name, r.err, FALSE)
  /\ UNCHANGED <<tvars, kvars>>

\* getAgentNameFromCertificate on a certificate
AgentNameFromCertificate(cert) ==
  /\ LET r == getAgentNameFromCertificate(cert)
     IN  ident' = Ident("getAgentNameFromCertificate", cert, r.name, r.err, FALSE)
  /\ UNCHANGED <<tvars, kvars>>

\* a request reaches a CNC handler wrapped by authenticate(method, h)
Authenticate(method, r) ==
  /\ ident' = Ident("authenticate", [method |-> method, r |-> r], "", "nil",
                    authenticate(method, r))
  /\ UNCHANGED <<tvars, kvars>>

\* a POST request reaches the handler of a CNC endpoint
Serve(e, b) ==
  /\ ident' = Served(e, b, Handle(e, b))
  /\ UNCHANGED <<tvars, kvars>>

\* a GET request reaches the statistics handler
ServeStatistics ==
  /\ ident' = Served("statistics", Object(<< >>), getStatistics(mockAgents))
  /\ UNCHANGED <<tvars, kvars>>

\* main sets up tracing
MainTracer(jaegerEndpoint, env) ==
  /\ ident' = [op |-> "main", in |-> [flag |-> jaegerEndpoint, env |-> env],
               endpoint |-> TraceEndpoint(jaegerEndpoint, env)]
  /\ UNCHANGED <<tvars, kvars>>

\* an executor builds the header of its outbound request
BuildHeader(headers, token) ==
  /\ ident' = [op |-> "header", in |-> [headers |-> headers, token |-> token],
               header |-> OutboundHeader(headers, token)]
  /\ UNCHANGED <<tvars, kvars>>

NextIdent ==
  \/ \E ctx \in PeerContexts : AgentNameFromContext(ctx)
  \/ \E cert \in Certificates : AgentNameFromCertificate(cert)
  \/ \E method \in {"GET", "POST"}, r \in CNCRequests : Authenticate(method, r)
  \/ \E e \in CNCEndpoints, b \in CNCBodies : Serve(e, b)
  \/ ServeStatistics
  \/ \E jaegerEndpoint \in {"", "http://jaeger.flag"}, env \in Envars :
       MainTracer(jaegerEndpoint, env)
  \/ \E headers \in TunnelHeaders, token \in {"", "token2"} : BuildHeader(headers, token)

InitIdent ==
  /\ InitTable
  /\ life = [r \in Routes |-> "off"]
  /\ hist = HistOff
  /\ KubeInit(CHOOSE ctx \in Contexts : ctx.username = "admin")
  /\ IdentInit
  /\ rid = FreshIds

SpecIdent == InitIdent /\ [][NextIdent]_vars

(***************************************************************************)
(* Properties of the route table.                                          *)
(***************************************************************************)
\* every route listed in the map
TableRoutes(mm) == UNION {Range(mm[n]) : n \in DOMAIN mm}

\* number of occurrences of a route in a list
Count(list, r) == Cardinality({i \in 1..Len(list) : list[i] = r})

\* a route advertises the endpoint of a search with configured = true
Matches(r, s) ==
  \E e \in GetEndpoints(r) :
    e.Type = s.EndpointType /\ e.Name = s.EndpointName /\ e.Configured = TRUE

\* no route listed under the name of a search matches it
NoCandidate(mm, s) == \A r \in Range(Listed(mm, s.Name)) : ~Matches(r, s)

\* C1: the step of Send that hands the message over puts it on the channel of
\* a route that is listed under search.Name, is named search.Name and has a
\* matching configured endpoint, and on no other channel.
C1_SendOnlyMatching ==
  [][\A g \in G :
       (pc[g] = "Send_route" /\ pc'[g] = "idle") =>
         /\ route[g] \in Range(Listed(m, ep[g].Name))
         /\ GetName(route[g]) = ep[g].Name
         /\ Matches(route[g], ep[g])
         /\ chan' = [chan EXCEPT ![route[g]] = Append(@, Message)]]_vars

\* a Send succeeded while a route without the configured endpoint is listed under the name
C1_Witness ==
  /\ last.op = "Send" /\ last.err = "nil"
  /\ \E q \in Range(Listed(m, last.ep.Name)) : ~Matches(q, last.ep)
  /\ Len(chan[last.route]) > 0

\* C2: whatever Add and Remove calls interleave with it, a Send that returns
\* without error returns the session id of the route it selected, and that
\* route was listed in the table in the state in which it was selected.
C2_SessionWasInTable ==
  [][\A g \in G :
       /\ (pc[g] = "idle" /\ pc'[g] = "Send_route") => route'[g] \in TableRoutes(m)
       /\ (pc[g] = "Send_route" /\ pc'[g] = "idle") =>
            /\ last'.op = "Send" /\ last'.err = "nil"
            /\ last'.session = GetSession(route[g])
            /\ \E r \in TableRoutes(m) : GetSession(r) = last'.session]_vars

\* a Send returned the session of a route that an earlier Remove had closed,
\* while the other goroutine is inside a Send of its own
C2_Witness ==
  /\ last.op = "Send" /\ last.err = "nil" /\ last.session = GetSession(last.route)
  /\ closed[last.route]
  /\ \E h \in G : pc[h] = "Send_route"

\* C3: a Send for a search without candidate returns the no-route error and
\* an empty session id, selects no route and leaves every channel as it was;
\* and no Send selects a route when there is no candidate.
C3_NoRoute ==
  [][/\ (last'.op = "Send" /\ NoCandidate(m, last'.ep)) =>
          /\ last'.err = "no-route" /\ last'.session = "" /\ last'.route = NoRoute
          /\ chan' = chan
     /\ \A g \in G : (pc[g] = "idle" /\ pc'[g] = "Send_route") => ~NoCandidate(m, ep'[g])]_vars

\* a Send failed although routes are listed under the name: none has the endpoint configured
C3_Witness ==
  /\ last.op = "Send" /\ last.err = "no-route" /\ last.session = ""
  /\ Len(Listed(m, last.ep.Name)) > 0

\* C4: no goroutine holds the table lock while it is at Route.Send (the channel
\* send) or at Route.Close.
C4_NoLockAcrossChannelOp ==
  \A g \in G : HoldsLock(g) => pc[g] \notin {"Send_route", "Remove_Close"}

\* C5: no Send waits on the full channel of the route it chose (it would
\* return a backpressure error instead), so that it never keeps Add and
\* Remove from taking the lock.
C5_FullChannelNoStall ==
  \A g \in G : (pc[g] = "Send_route" /\ ~RouteSendReady(chan, route[g])) => CanLock

\* C6: Add(r) appends r to the list under r's name: the list grows by exactly
\* one, r is its last element, every other name keeps its list, and the gauge
\* of the name grows by exactly one.
C6_AddAppends ==
  [][last'.op = "Add" =>
       LET r == last'.state
           n == GetName(r)
       IN  /\ DOMAIN m' = DOMAIN m \cup {n}
           /\ m'[n] = Append(Listed(m, n), r)
           /\ Len(m'[n]) = Len(Listed(m, n)) + 1
           /\ \A q \in TableRoutes(m) : q \in TableRoutes(m')
           /\ \A k \in DOMAIN m \ {n} : m'[k] = m[k]
           /\ gauge' = [gauge EXCEPT ![n] = @ + 1]]_vars

\* an Add returned and two different routes are listed under its name
C6_Witness ==
  /\ last.op = "Add"
  /\ Cardinality(Range(Listed(m, GetName(last.state)))) >= 2

\* C7: Remove(r) of a listed route removes exactly one occurrence of r from the
\* list under r's name, leaves every other list alone, has called r.Close()
\* and lowers the gauge of the name by exactly one.
C7_RemoveExactlyOne ==
  [][(last'.op = "Remove" /\ last'.state \in TableRoutes(m)) =>
       LET r == last'.state
           n == GetName(r)
       IN  /\ DOMAIN m' = DOMAIN m
           /\ \A q \in Routes :
                Count(m'[n], q) = Count(m[n], q) - (IF q = r THEN 1 ELSE 0)
           /\ \A k \in DOMAIN m \ {n} : m'[k] = m[k]
           /\ closed'[r]
           /\ gauge' = [gauge EXCEPT ![n] = @ - 1]]_vars

\* a Remove returned for a route that was listed twice: it is closed and one
\* occurrence of it is still listed
C7_Witness ==
  /\ last.op = "Remove"
  /\ last.state \in Range(Listed(m, GetName(last.state)))
  /\ closed[last.state]

\* C8 as stated: after Add(r) directly followed by Remove(r) the map and the
\* gauge are exactly what they were before the Add.
C8_Original ==
  hist.st = "removed" => m = hist.m0 /\ gauge = hist.g0

\* C8 as amended: after Add(r) directly followed by Remove(r) every name has
\* the list of routes it had before the Add and the gauge is what it was; the
\* name of r has an entry, an empty list if it had none before.
C8_AddRemoveRestores ==
  hist.st = "removed" =>
    /\ \A n \in Names : Listed(m, n) = Listed(hist.m0, n)
    /\ DOMAIN m = DOMAIN hist.m0 \cup {GetName(hist.r)}
    /\ gauge = hist.g0

\* Add(r) then Remove(r) happened on a name that had no entry, with another name populated
C8_Witness ==
  /\ hist.st = "removed"
  /\ GetName(hist.r) \notin DOMAIN hist.m0
  /\ TableRoutes(m) # {}

\* C9 as stated: the step of Remove(r) for a route that is not listed changes
\* neither the map nor the gauge nor any route, r included.
C9_Original ==
  [][(last'.op = "Remove" /\ last'.state \notin TableRoutes(m)) =>
       /\ m' = m /\ gauge' = gauge /\ chan' = chan
       /\ closed' = closed]_vars

\* C9 as amended: the step of Remove(r) for a route that is not listed changes
\* neither the map nor the gauge nor any other route; r.Close() is still called.
C9_RemoveAbsent ==
  [][(last'.op = "Remove" /\ last'.state \notin TableRoutes(m)) =>
       /\ m' = m /\ gauge' = gauge /\ chan' = chan
       /\ closed' = [closed EXCEPT ![last'.state] = TRUE]]_vars

\* a Remove returned for a route that was never added, while another route is
\* listed under its name
C9_Witness ==
  /\ last.op = "Remove"
  /\ life[last.state] = "never"
  /\ Len(Listed(m, GetName(last.state))) > 0
  /\ closed[last.state]

\* C10: once Remove(r) has returned for a route that was added once, r is not
\* the route chosen by any Send in progress, and no Send or Cancel that returns
\* has delivered to r or returns r's session id.
C10_RemovedGetsNothing ==
  \A r \in Routes :
    life[r] = "removed" =>
      /\ \A g \in G : route[g] # r
      /\ last.op \in {"Send", "Cancel"} =>
           last.route # r /\ last.session # GetSession(r)

\* after r was removed, a Send for an endpoint that r has configured succeeded
\* on another route of the same name
C10_Witness ==
  \E r \in Routes :
    /\ life[r] = "removed"
    /\ last.op = "Send" /\ last.err = "nil"
    /\ last.ep.Name = GetName(r) /\ Matches(r, last.ep)

\* C11: a Cancel whose search has an empty session returns the session-not-set
\* error, has delivered a cancellation to no route and leaves the lock, the
\* table and every route as they were; it does not wait for the lock.
C11_CancelNoSession ==
  [][(last'.op = "Cancel" /\ Len(last'.ep.Session) = 0) =>
       /\ last'.err = "no-session" /\ last'.route = NoRoute
       /\ UNCHANGED <<m, gauge, readers, writer, closed, chan, pc>>]_vars

\* a Cancel without session returned its error while another goroutine holds
\* the write lock (it is inside Remove) and routes are listed under the name
C11_Witness ==
  /\ last.op = "Cancel" /\ Len(last.ep.Session) = 0 /\ last.err = "no-session"
  /\ writer # NoG
  /\ Len(Listed(m, last.ep.Name)) > 0

\* C12: a Cancel whose search has a session delivers Cancel(id) to one route
\* listed under search.Name whose session is the search's and returns nil, if
\* there is such a route; otherwise it returns an error and delivers to no
\* route. It changes neither the map nor the gauge.
C12_CancelOneMatching ==
  [][(last'.op = "Cancel" /\ Len(last'.ep.Session) # 0) =>
       LET s == last'.ep
           candidates == {r \in Range(Listed(m, s.Name)) : GetSession(r) = s.Session}
       IN  /\ m' = m /\ gauge' = gauge /\ closed' = closed /\ chan' = chan
           /\ IF candidates = {}
                THEN last'.route = NoRoute /\ last'.err # "nil"
                ELSE last'.route \in candidates /\ last'.err = "nil"]_vars

\* a Cancel was delivered to the second route of a list whose first route has
\* another session
C12_Witness ==
  /\ last.op = "Cancel" /\ last.err = "nil"
  /\ Len(Listed(m, last.ep.Name)) = 2
  /\ m[last.ep.Name][2] = last.route
  /\ m[last.ep.Name][1] # last.route

(***************************************************************************)
(* Properties of the Kubernetes endpoint executor.                         *)
(***************************************************************************)
IsResponse(fr) == fr.type = "HttpTunnelResponse"
IsChunk(fr) == fr.type = "HttpTunnelChunkedResponse"
IsBadGateway(fr) == fr = makeBadGatewayResponse(fr.id)

\* the executor has taken its snapshot and has not returned yet
HasSnapshot(x) == xpc[x] \notin ({"start", "done"} \cup Range(Fields))

\* C13: in the frames an executor has put on dataflow, all of them with the
\* id of its request, every chunk frame comes after a response (header) frame.
C13_NoChunkBeforeHeader ==
  \A x \in X : \A i \in 1..Len(sent[x]) :
    /\ sent[x][i].id = ReqId(x)
    /\ IsChunk(sent[x][i]) => \E j \in 1..(i - 1) : IsResponse(sent[x][j])

\* an executor has sent the header and then a chunk with a body
C13_Witness ==
  \E x \in X :
    /\ Len(sent[x]) >= 2
    /\ IsResponse(sent[x][1])
    /\ IsChunk(sent[x][2]) /\ sent[x][2].body > 0

\* C14: a chunk with an empty body is the last frame an executor ever sends for
\* its id: no frame follows it in what was sent, none is waiting to be sent
\* after it, and so there is at most one.
C14_EmptyChunkIsLast ==
  \A x \in X : \A i \in 1..Len(sent[x]) :
    (IsChunk(sent[x][i]) /\ sent[x][i].body = 0) =>
      /\ i = Len(sent[x])
      /\ out[x] = << >>
      /\ xpc[x] \in {"return", "done"}

\* an executor has returned after the header, a chunk with a body and the empty chunk
C14_Witness ==
  \E x \in X :
    /\ xpc[x] = "done"
    /\ Len(sent[x]) = 3
    /\ sent[x][3] = makeChunkedResponse(ReqId(x), 0)

\* C15: an executor that has returned without its cancel function having been
\* called has sent one response frame, then chunks with a body, then one chunk
\* with an empty body.
C15_AlwaysTerminated ==
  \A x \in X :
    (xpc[x] = "done" /\ x \notin cancelled) =>
      /\ Len(sent[x]) >= 2
      /\ IsResponse(sent[x][1])
      /\ \A i \in 2..Len(sent[x]) :
           IsChunk(sent[x][i]) /\ (sent[x][i].body = 0 <=> i = Len(sent[x]))

\* C16: the step in which building the request, copying the headers or
\* client.Do fails queues exactly the synthesized 502 response with the id of
\* the request, nothing having been sent before; a synthesized 502 is the only
\* frame of its executor; and an executor that has returned has sent either
\* that frame alone or the header of the real response first.
C16_BadGatewayOnce ==
  [][\A x \in X :
       /\ (xpc[x] \in {"build", "headers", "do"} /\ xpc'[x] = "send_return") =>
            /\ sent[x] = << >>
            /\ out'[x] = <<makeBadGatewayResponse(ReqId(x))>>
       /\ \A i \in 1..Len(sent'[x]) :
            IsBadGateway(sent'[x][i]) => Len(sent'[x]) = 1 /\ out'[x] = << >>
       /\ (xpc'[x] = "done" /\ \A i \in 1..Len(sent'[x]) : sent'[x][i].by # "makeResponse") =>
            sent'[x] = <<makeBadGatewayResponse(ReqId(x))>>]_vars

\* an executor has returned having sent the synthesized 502 and nothing else,
\* while the other one is streaming a real response
C16_Witness ==
  \E x \in X, y \in X :
    /\ xpc[x] = "done"
    /\ sent[x] = <<makeBadGatewayResponse(ReqId(x))>>
    /\ Len(sent[y]) > 0 /\ sent[y][1].by = "makeResponse"

\* C17: the fields an executor has copied are those of the context that was
\* stored when it took the read lock; its finished snapshot is that context,
\* one of the contexts a load returns, and what it builds until it returns
\* (TLS settings, URL, token header) is built from it.
C17_SnapshotNotTorn ==
  \A x \in X :
    /\ f \in Contexts
    /\ xpc[x] \in Range(Fields) =>
         \A k \in 1..(FieldIndex(xpc[x]) - 1) : c[x][Fields[k]] = at[x][Fields[k]]
    /\ HasSnapshot(x) =>
         /\ c[x] = at[x]
         /\ c[x] \in Contexts
         /\ call[x].tls = tlsConfig(at[x])
         /\ call[x].url \in {<< >>, RequestURL(at[x])}
         /\ call[x].authorization \in {<< >>, Authorization(at[x], ReqAuthorization)}

\* an executor is about to call the API server with the context it copied,
\* after a refresh has stored another one, while the other executor is in the
\* middle of its snapshot
C17_Witness ==
  \E x \in X, y \in X :
    /\ xpc[x] = "do"
    /\ c[x] # f
    /\ call[x].url = RequestURL(c[x])
    /\ xpc[y] = "token"

(***************************************************************************)
(* Properties of the identity checks.                                      *)
(***************************************************************************)
\* the OU of a certificate parses, and the purpose it names
Parses(cert) ==
  Len(cert.OrganizationalUnit) > 0 /\ cert.OrganizationalUnit[1].wf
Purpose(cert) == Member(cert.OrganizationalUnit[1].obj, "purpose")

\* a context from which no agent name can come
NoAgent(ctx) ==
  \/ ~ctx.peer
  \/ ctx.auth # "TLSInfo"
  \/ Len(ctx.chains) = 0
  \/ Len(ctx.chains[1]) = 0
  \/ ~Parses(ctx.chains[1][1])
  \/ Purpose(ctx.chains[1][1]) # "agent"

\* C18: getAgentNameFromContext on a context without peer, without TLS
\* credentials, without verified chain, or whose leaf has a purpose other than
\* agent or an OU that does not parse, returns no name and an error whose gRPC
\* code is Unauthenticated.
C18_Unauthenticated ==
  (ident.op = "getAgentNameFromContext" /\ NoAgent(ident.in)) =>
    ident.name = "" /\ Code(ident.err) = "Unauthenticated"

\* C19: getAgentNameFromCertificate returns without error exactly when the OU
\* of the certificate parses and names the purpose agent; the name is then the
\* agent member of the OU, and otherwise it is empty.
C19_AgentNameIffAgentPurpose ==
  ident.op = "getAgentNameFromCertificate" =>
    LET cert == ident.in
    IN  /\ ident.err = "nil" <=> (Parses(cert) /\ Purpose(cert) = "agent")
        /\ ident.err = "nil" => ident.name = Member(cert.OrganizationalUnit[1].obj, "agent")
        /\ ident.err # "nil" => ident.name = ""

\* the name b was returned for an agent certificate
C19_Witness ==
  /\ ident.op = "getAgentNameFromCertificate"
  /\ ident.err = "nil" /\ ident.name = "b"

\* C20: the handler wrapped by authenticate(method, h) is called exactly when
\* the first peer certificate of the request has an OU that parses with purpose
\* control and the method of the request is the expected one.
C20_HandlerIffControl ==
  ident.op = "authenticate" =>
    LET r == ident.in.r
    IN  ident.called <=>
          /\ Len(r.PeerCertificates) > 0
          /\ Parses(r.PeerCertificates[1])
          /\ Purpose(r.PeerCertificates[1]) = "control"
          /\ r.Method = ident.in.method

\* the handler of a POST endpoint was called for a control certificate that
\* also names an agent
C20_Witness ==
  /\ ident.op = "authenticate" /\ ident.called
  /\ ident.in.method = "POST"
  /\ Member(ident.in.r.PeerCertificates[1].OrganizationalUnit[1].obj, "agent") = "a"

\* positions in a list of the routes that match a search
Candidates(routeList, s) == {i \in 1..Len(routeList) : Matches(routeList[i], s)}

ValidBody(e, b) ==
  b.wf /\ \A i \in 1..Len(Required(e)) : Member(b.obj, Required(e)[i]) # ""

\* C21: a POST endpoint answers a body that is not valid JSON or that lacks a
\* required name field with status 400 and a JSON body whose error.message is
\* non-empty and names the problem; it answers 200 only to a valid request.
C21_BadRequestIs400 ==
  (ident.op = "serve" /\ ident.in.endpoint \in CNCEndpoints) =>
    LET e == ident.in.endpoint
        b == ident.in.body
        r == ident.resp
    IN  /\ r.status = 200 <=> ValidBody(e, b)
        /\ ~ValidBody(e, b) =>
              /\ r.status = 400
              /\ DOMAIN r.body = {"error"}
              /\ Len(r.body.error.message) > 0
              /\ IF ~b.wf THEN r.body.error.message = "json: cannot unmarshal"
                 ELSE \E i \in 1..Len(Required(e)) :
                        /\ Member(b.obj, Required(e)[i]) = ""
                        /\ r.body.error.message = "'" \o Required(e)[i] \o "' is invalid"

\* generateKubectlComponents refused a request that names the agent but not the user
C21_Witness ==
  /\ ident.op = "serve" /\ ident.in.endpoint = "generateKubectlComponents"
  /\ ident.in.body.wf /\ Member(ident.in.body.obj, "agentName") = "agent smith"
  /\ ident.resp.status = 400
  /\ ident.resp.body.error.message = "'name' is invalid"

\* C22: every response of a CNC endpoint, the four POST endpoints and the
\* statistics endpoint, success or error, has content-type application/json.
C22_ContentTypeJSON ==
  ident.op = "serve" => ident.resp.contentType = "application/json"

\* an error response was sent
C22_Witness ==
  /\ ident.op = "serve" /\ ident.resp.status = 400
  /\ ident.resp.contentType = "application/json"

\* C23: a successful generateServiceCredentials response echoes the agent name,
\* the service name and the type of the request, carries the configured service
\* URL and the CA certificate of the authority, and holds a credential of type
\* aws with exactly the keys awsAccessKey and awsSecretAccessKey for type aws,
\* of type basic with exactly the keys username and password for any other type.
C23_ServiceCredentials ==
  (/\ ident.op = "serve" /\ ident.in.endpoint = "generateServiceCredentials"
   /\ ident.resp.status = 200) =>
    LET req == ident.in.body.obj
        body == ident.resp.body
    IN  /\ body.agentName = Member(req, "agentName")
        /\ body.name = Member(req, "name")
        /\ body.type = Member(req, "type")
        /\ body.url = "https://service.local"
        /\ body.caCert = "base64-cacert"
        /\ IF Member(req, "type") = "aws"
           THEN /\ body.credentialType = "aws"
                /\ DOMAIN body.credentials = {"awsAccessKey", "awsSecretAccessKey"}
           ELSE /\ body.credentialType = "basic"
                /\ DOMAIN body.credentials = {"username", "password"}

\* credentials were generated for a service of type aws
C23_Witness ==
  /\ ident.op = "serve" /\ ident.in.endpoint = "generateServiceCredentials"
  /\ ident.resp.status = 200
  /\ Member(ident.in.body.obj, "type") = "aws"
  /\ ident.resp.body.credentialType = "aws"

\* the routes of the table, each as often as it is listed
InTable(mm, r) == Cardinality({<<n, i>> \in (DOMAIN mm) \X (1..(MaxLen + 1)) :
                                i <= Len(mm[n]) /\ mm[n][i] = r})

\* C24: GetStatistics returns one statistics object for each route that is in
\* the table when it is called and nothing else, it changes neither the table
\* nor a route, and the statistics response of the CNC server holds what it
\* returned under connectedAgents.
C24_StatisticsPerRoute ==
  [][(last'.op = "GetStatistics" /\ last' # last) =>
       LET ret == last'.ret
       IN  /\ \A r \in Routes : Count(ret, RouteStatistics(r)) = InTable(m, r)
           /\ \A i \in 1..Len(ret) : \E r \in Routes : ret[i] = RouteStatistics(r)
           /\ m' = m /\ gauge' = gauge /\ closed' = closed /\ chan' = chan
           /\ last'.resp.body.connectedAgents = ret]_vars

\* statistics were returned for a table with two routes under one name and one
\* under another
C24_Witness ==
  /\ last.op = "GetStatistics"
  /\ Len(last.ret) = 3
  /\ last.resp.status = 200

(***************************************************************************)
(* Process termination.                                                    *)
(***************************************************************************)
\* C25: once the process has started nothing ends it: a failure of a
\* transaction or of the periodic credential refresh leaves it running with
\* the context it had installed.
C25_OnlyStartupIsFatal ==
  fatal = "none"

\* C26: the tracing endpoint is the value of JAEGER_TRACE_URL whenever that
\* variable is set, whatever --jaeger-endpoint holds, and the value of the flag
\* when the variable is not set.
C26_EnvOverridesFlag ==
  ident.op = "main" =>
    ident.endpoint = IF ident.in.env.set THEN ident.in.env.value ELSE ident.in.flag

(***************************************************************************)
(* The registry of cancel functions.                                       *)
(***************************************************************************)
\* the executor x is between its registration and its return
Running(x) == xpc[x] \in {"build", "headers", "do", "send", "send_return", "read", "return"}

\* C28: whenever the cancel function of a transaction in flight is called, the
\* executor of the transaction stops in the end and the id is no longer
\* registered, whether the executor was waiting for the outbound call, reading
\* the body or sending a frame on dataflow, drained or not.
C28_CancelStopsExecutor ==
  \A x \in X : (x \in cancelled) ~> (xpc[x] = "done" /\ ReqId(x) \notin Registered(registry))

\* C29: from its registration, which is before the outbound call, to its
\* return the executor has a cancel function registered under req.Id, and once
\* it has returned, on whatever path, none is registered under that id.
C29_RegisteredWhileRunning ==
  \A x \in X :
    /\ Running(x) => <<ReqId(x), x>> \in registry
    /\ xpc[x] = "done" => ReqId(x) \notin Registered(registry)

\* an executor returned after a failed outbound call, another one after a
\* cancelled read
C29_Witness ==
  /\ xpc["x1"] = "done" /\ sent["x1"] = <<makeBadGatewayResponse(ReqId("x1"))>>
  /\ xpc["x2"] = "done" /\ "x2" \in cancelled /\ Len(sent["x2"]) > 0
  /\ registry = {}

\* C30: an executor started with an id that a transaction in flight has
\* registered is dropped and does not disturb that transaction: the cancel
\* function of the first stays the one registered under the id until the first
\* returns, and an id never has two functions.
C30_DuplicateDropped ==
  [][/\ \A x, y \in X :
          (/\ x # y /\ ReqId(x) = ReqId(y)
           /\ Running(x)' /\ <<ReqId(x), x>> \in registry') => ~Running(y)'
     /\ \A x \in X :
          (<<ReqId(x), x>> \in registry /\ <<ReqId(x), x>> \notin registry') =>
            (xpc[x] = "return" /\ xpc'[x] = "done")
     /\ \A p, q \in registry' : p[1] = q[1] => p = q]_vars

(***************************************************************************)
(* The chunks of a response body.                                          *)
(***************************************************************************)
\* bytes carried by the chunks of a sequence of frames
RECURSIVE ChunkBytes(_)
ChunkBytes(frames) ==
  IF frames = << >> THEN 0
  ELSE (IF IsChunk(Head(frames)) THEN Head(frames).body ELSE 0) + ChunkBytes(Tail(frames))

\* C31: a read of n bytes puts exactly one chunk with a body in the queue of
\* the executor, of these n bytes, 1 <= n <= 10240, ahead of the terminal
\* chunk if there is one; a read of no bytes puts no chunk with a body there,
\* and no frame at all when the loop goes on; frames are sent in the order
\* they were queued; so the bytes of the chunks sent and queued are, in order,
\* the bytes read so far, and all of the body once EOF was read.
C31_ChunksAreTheBytesRead ==
  [][\A x \in X :
       /\ (/\ xpc[x] = "read"
           /\ <<xpc'[x], left'[x], out'[x]>> # <<xpc[x], left[x], out[x]>>) =>
            LET n == left[x] - left'[x]
            IN  /\ n >= 0 /\ n <= BufLen
                /\ sent'[x] = sent[x]
                /\ n > 0 => out'[x][1] = makeChunkedResponse(ReqId(x), n)
                /\ \A i \in 1..Len(out'[x]) :
                     (i > 1 \/ n = 0) => out'[x][i] = makeChunkedResponse(ReqId(x), 0)
                /\ xpc'[x] = "read" => out'[x] = << >>
       /\ (xpc[x] \in {"send", "send_return"} /\ sent'[x] # sent[x]) =>
            /\ sent'[x] = Append(sent[x], Head(out[x]))
            /\ out'[x] = Tail(out[x])
       /\ xpc[x] \in {"read", "send", "send_return"} =>
            ChunkBytes(sent'[x] \o out'[x]) + left'[x] = ChunkBytes(sent[x] \o out[x]) + left[x]
       /\ LET frames == sent'[x] \o out'[x]
          IN  \A i \in 1..Len(frames) :
                IsChunk(frames[i]) =>
                  /\ frames[i].body <= BufLen
                  /\ frames[i].body = 0 => i = Len(frames)]_vars

\* a body of BufLen + 1 bytes was streamed to its end: a full chunk, a chunk
\* of one byte, the terminal chunk
C31_Witness ==
  \E x \in X :
    /\ xpc[x] = "return" /\ left[x] = 0 /\ x \notin cancelled
    /\ sent[x] = <<makeResponse(ReqId(x), 200), makeChunkedResponse(ReqId(x), BufLen),
                   makeChunkedResponse(ReqId(x), 1), makeChunkedResponse(ReqId(x), 0)>>

(***************************************************************************)
(* The refresh of the stored context.                                      *)
(***************************************************************************)
\* two contexts differ in one of the fields that are compared
Differ(a, b) ==
  \/ a.username # b.username \/ a.serverURL # b.serverURL \/ a.token # b.token
  \/ a.insecure # b.insecure \/ a.serverCA # b.serverCA \/ a.clientCert # b.clientCert

\* C32: the refresh worker loads a context while it does not hold the lock of
\* the endpoint; it changes the stored context only while it holds the write
\* lock; there it replaces the stored context by the loaded one as a whole
\* exactly when the two differ in username, server URL, token, insecure flag,
\* server CA or client certificate and leaves it as it is otherwise, so that
\* afterwards the stored context does not differ from the loaded one.
C32_RefreshInstallsLoaded ==
  [][/\ saf' # saf /\ saf = NoContext => ~kwriter /\ ~kwriter'
     /\ f' # f => kwriter /\ ~kwriter'
     /\ (kwriter /\ ~kwriter') =>
          /\ f' = IF Differ(f, saf) THEN saf ELSE f
          /\ ~Differ(f', saf)]_vars

\* the worker holds the write lock with a loaded context that differs from the
\* stored one in its token only
C32_Witness ==
  /\ kwriter
  /\ f.token # saf.token
  /\ [f EXCEPT !.token = saf.token] = saf

(***************************************************************************)
(* The header of the outbound request.                                     *)
(***************************************************************************)
\* the values a list of headers gives under a name, in the order of the list
RECURSIVE ValuesOf(_, _)
ValuesOf(headers, k) ==
  IF headers = << >> THEN << >>
  ELSE (IF CanonicalHeaderKey(Head(headers).Name) = k THEN Head(headers).Values ELSE << >>)
         \o ValuesOf(Tail(headers), k)

\* C33: the header of the outbound request has, under every name, all the
\* values the tunneled request has under that name, in their order, and no
\* others; except that with a token in the snapshot Authorization has the one
\* value "Bearer <token>" whatever the client sent, while without a token the
\* Authorization values of the client are passed on as they are.
C33_HeadersCopied ==
  ident.op = "header" =>
    LET headers == ident.in.headers
        token == ident.in.token
        h == ident.header
    IN  /\ \A k \in {"Accept", "Authorization"} :
             IF k = "Authorization" /\ token # ""
               THEN k \in DOMAIN h /\ h[k] = <<"Bearer " \o token>>
               ELSE IF ValuesOf(headers, k) = << >> THEN k \notin DOMAIN h
               ELSE k \in DOMAIN h /\ h[k] = ValuesOf(headers, k)
        /\ DOMAIN h \subseteq {"Accept", "Authorization"}

\* a request with two Accept values and an Authorization value of the client
\* was given the bearer token
C33_Witness ==
  /\ ident.op = "header" /\ ident.in.token = "token2"
  /\ ident.in.headers = <<[Name |-> "Accept", Values |-> <<"v1", "v2">>],
                          [Name |-> "authorization", Values |-> <<"v1">>]>>
  /\ ident.header = [Accept |-> <<"v1", "v2">>, Authorization |-> <<"Bearer token2">>]

(***************************************************************************)
(* The gauge against the table.                                            *)
(***************************************************************************)
\* C34: in every state, for every agent name, the gauge of the name is the
\* number of routes listed under it: also after removing a route that is not
\* listed and after adding a route that is listed already.
C34_GaugeIsListLength ==
  \A n \in Names : gauge[n] = Len(Listed(m, n))

\* a route added twice was removed once: it is still listed, once, and the
\* gauge of its name is one
C34_Witness ==
  \E r \in Routes :
    /\ last.op = "Remove" /\ last.state = r
    /\ Listed(m, GetName(r)) = <<r>>
    /\ gauge[GetName(r)] = 1

(***************************************************************************)
(* The random source of findService.                                       *)
(***************************************************************************)
\* C35: no two goroutines are inside a call of rnd.Intn at the same time:
\* concurrent calls of Send are serialized where they use rnd.
C35_RndSerialized ==
  \A g1 \in G, g2 \in G :
    pc[g1] = "Send_Intn" /\ pc[g2] = "Send_Intn" => g1 = g2

(***************************************************************************)
(* A name whose list has become empty.                                     *)
(***************************************************************************)
\* the map without an entry for the name
Without(mm, n) == [k \in DOMAIN mm \ {n} |-> mm[k]]

\* C36: while a name has an entry with an empty list, every call answers as
\* it would with no entry for the name: Send and Cancel for the name return
\* an error and touch no route, GetStatistics returns what it would return
\* without the entry, and Add of a route of the name leaves the map and the
\* gauge as Add on the map without the entry does, the route alone in its list.
C36_EmptiedIsFresh ==
  [][\A n \in Names :
       (n \in DOMAIN m /\ m[n] = << >>) =>
         /\ (last'.op = "Send" /\ last'.ep.Name = n) =>
              /\ last'.err = "no-route" /\ last'.route = NoRoute
              /\ m' = m /\ gauge' = gauge /\ chan' = chan /\ closed' = closed
         /\ (last'.op = "Cancel" /\ last'.ep.Name = n) =>
              /\ last'.err # "nil" /\ last'.route = NoRoute
              /\ m' = m /\ gauge' = gauge /\ chan' = chan /\ closed' = closed
         /\ last'.op = "GetStatistics" =>
              /\ last'.ret \in GetStatistics(Without(m, n))
              /\ \A i \in 1..Len(last'.ret) : last'.ret[i].name # n
         /\ (last'.op = "Add" /\ GetName(last'.state) = n) =>
              /\ m' = AddMap(Without(m, n), last'.state)
              /\ m'[n] = <<last'.state>>
              /\ gauge' = AddGauge(gauge, last'.state) /\ gauge'[n] = 1]_vars

\* the only route of a name was removed, the entry of the name is still in
\* the map, and a Send for the name has returned its error
C36_Witness ==
  \E n \in Names :
    /\ n \in DOMAIN m /\ m[n] = << >>
    /\ last.op = "Send" /\ last.ep.Name = n /\ last.err = "no-route"

====
